---- MODULE Spec2Model ----
(***************************************************************************)
(* Model of the two-stage thermostat controller of src/main.py.            *)
(*                                                                         *)
(* Temperatures are whole degrees.  The decision value of the code,        *)
(* (current_temp + previous_temp) / 2, is compared with a limit L as       *)
(* current_temp + previous_temp against 2 * L, which is the same           *)
(* comparison without the division.  An optional value (a JSON null, a     *)
(* missing key, Python None) is the empty sequence, a present value v is   *)
(* the sequence <<v>>.  Times are whole days, as only .days of the         *)
(* difference now - schedule_start_time is used.                           *)
(***************************************************************************)
EXTENDS Integers, Sequences, FiniteSets, TLC

VARIABLES
    \* globals written by handle_incoming_message (the Config)
    config_done, schedule_start_time, base_low_temp, base_high_temp,
    minimum_off_mins, tempUnit, schedule_adjust_days, schedule_adjust_temp,
    \* globals written by the control loop
    previous_temp, currentTemp, lowTempLimit, highTempLimit,
    schedule_adjustment, heat_relay_pin, cool_relay_pin,
    cooling_state, cooling_off_count,
    \* control state of main() and of update_clock_thread()
    pc, ntp_pc, initial_ntp_success,
    \* observations of the current decision cycle
    errEvents, failCause, daysNegative, coolDemand, earlyRead, mixedRead,
    statusEvents, lastStatus, seededAgain,
    \* history of the run, used only to state properties
    offCycles, cfgStable, allCompleted, onAfter, sampled

cfgvars == <<schedule_start_time, base_low_temp, base_high_temp,
             minimum_off_mins, tempUnit, schedule_adjust_days,
             schedule_adjust_temp>>

loopvars == <<previous_temp, currentTemp, lowTempLimit, highTempLimit,
              schedule_adjustment, heat_relay_pin, cool_relay_pin,
              cooling_state, cooling_off_count>>

obsvars == <<errEvents, failCause, daysNegative, coolDemand, earlyRead,
            mixedRead, statusEvents, lastStatus, seededAgain>>

histvars == <<offCycles, cfgStable, allCompleted, onAfter, sampled>>

vars == <<config_done, cfgvars, loopvars, pc, ntp_pc, initial_ntp_success,
          obsvars, histvars>>

----------------------------------------------------------------------------
(* Bounds of the model *)

\* the clock reads a day in 0..MaxDay
MaxDay == 2

\* the count of consecutive off cycles is recorded up to this value
MaxOffCycles == 3

----------------------------------------------------------------------------
(* Optional values and Python truthiness *)

None == <<>>

Some(v) == <<v>>

IsNone(x) == x = <<>>

Val(x) == x[1]

\* "if base_low_temp and ...": None and 0 are both false
Truthy(x) == x # <<>> /\ x[1] # 0

Min(a, b) == IF a < b THEN a ELSE b

Max(a, b) == IF a > b THEN a ELSE b

----------------------------------------------------------------------------
(* Inputs *)

\* readings of the sensor, in degrees Celsius
Samples == {-5, 0, 30}

\* a tempChanges entry; a key that is missing is None
Change(d, t) == [daysLater |-> d, tempChange |-> t]

\* a config message: json says whether json.loads succeeds; start is
\* "ok" (an ISO string for day startDay), "missing" or "bad"
Msg(j, s, sd, lo, hi, n, c, tc) ==
    [json |-> j, start |-> s, startDay |-> sd, lowTempLimit |-> lo,
     highTempLimit |-> hi, minimumOffMins |-> n, celsius |-> c,
     tempChanges |-> tc]

MsgCelsius ==
    Msg(TRUE, "ok", 1, Some(20), Some(25), 3, TRUE,
        <<Change(Some(0), Some(0)), Change(Some(1), Some(5))>>)

MsgFahrenheit ==
    Msg(TRUE, "ok", 0, Some(68), Some(77), 1, FALSE, <<>>)

MsgNoLow ==
    Msg(TRUE, "ok", 0, None, Some(25), 2, TRUE,
        <<Change(Some(1), Some(-5)), Change(Some(0), Some(5))>>)

MsgZeroLow ==
    Msg(TRUE, "ok", 0, Some(0), Some(25), 2, TRUE, <<>>)

MsgBadJson ==
    Msg(FALSE, "ok", 0, Some(20), Some(25), 3, TRUE, <<>>)

MsgNoStart ==
    Msg(TRUE, "missing", 0, Some(20), Some(25), 3, TRUE,
        <<Change(Some(0), Some(5))>>)

MsgBadStart ==
    Msg(TRUE, "bad", 0, Some(20), Some(25), 3, TRUE, <<>>)

MsgNoTempChange ==
    Msg(TRUE, "ok", 2, Some(20), Some(25), 3, TRUE,
        <<Change(Some(0), Some(5)), Change(Some(1), None)>>)

MsgNoDaysLater ==
    Msg(TRUE, "ok", 2, Some(20), Some(25), 3, TRUE,
        <<Change(None, Some(5))>>)

Messages == {MsgCelsius, MsgFahrenheit, MsgNoLow, MsgZeroLow, MsgBadJson,
             MsgNoStart, MsgBadStart, MsgNoTempChange, MsgNoDaysLater}

----------------------------------------------------------------------------
(* Config ingestion: handle_incoming_message and parse_schedule *)

\* index of the first entry of tc that raises KeyError, 0 if none does
FirstBad(tc) ==
    LET bad == {i \in 1..Len(tc) :
                   IsNone(tc[i].daysLater) \/ IsNone(tc[i].tempChange)}
    IN IF bad = {} THEN 0 ELSE CHOOSE i \in bad : \A k \in bad : i <= k

\* parse_schedule: the two lists after the call, and whether it raised
parse_schedule(schedule, days, temps) ==
    IF schedule = <<>>
    THEN [days |-> days, temps |-> temps, raised |-> FALSE]
    ELSE LET b == FirstBad(schedule)
             nt == IF b = 0 THEN Len(schedule) ELSE b - 1
             nd == IF b # 0 /\ ~IsNone(schedule[b].daysLater) THEN b ELSE nt
         IN [days |-> [i \in 1..nd |-> Val(schedule[i].daysLater)],
             temps |-> [i \in 1..nt |-> Val(schedule[i].tempChange)],
             raised |-> b # 0]

\* json.loads and datetime.fromisoformat succeed
StartParses(m) == m.json /\ m.start = "ok"

\* the whole try block runs to config_done = True
Accepts(m) == StartParses(m) /\ FirstBad(m.tempChanges) = 0

\* unit, start, low and high are the fields of one message that is accepted
WholeConfig(unit, start, low, high) ==
    \E m \in Messages :
        /\ Accepts(m)
        /\ unit = (IF m.celsius THEN "C" ELSE "F")
        /\ start = Some(m.startDay)
        /\ low = m.lowTempLimit
        /\ high = m.highTempLimit

handle_incoming_message(m) ==
    /\ IF StartParses(m)
       THEN LET ps == parse_schedule(m.tempChanges, schedule_adjust_days,
                                     schedule_adjust_temp)
            IN /\ schedule_start_time' = Some(m.startDay)
               /\ base_low_temp' = m.lowTempLimit
               /\ base_high_temp' = m.highTempLimit
               /\ minimum_off_mins' = m.minimumOffMins
               /\ tempUnit' = IF m.celsius THEN "C" ELSE "F"
               /\ schedule_adjust_days' = ps.days
               /\ schedule_adjust_temp' = ps.temps
               /\ config_done' = (config_done \/ ~ps.raised)
       ELSE UNCHANGED <<cfgvars, config_done>>
    /\ cfgStable' = (offCycles = 0 \/ (cfgStable /\ cfgvars' = cfgvars))
    /\ UNCHANGED <<loopvars, pc, ntp_pc, initial_ntp_success, obsvars,
                   offCycles, allCompleted, onAfter, sampled>>

----------------------------------------------------------------------------
(* Clock synchronisation thread: update_clock_thread.  The thread is    *)
(* either in one of its utime.sleep calls or in ntptime.settime().         *)

\* a sleep is over: line 212 reads config_done; lines 213-214 sleep again
NtpWake ==
    /\ ntp_pc = "sleep"
    /\ ntp_pc' = IF config_done THEN "settime" ELSE "sleep"
    /\ UNCHANGED <<config_done, cfgvars, loopvars, pc, initial_ntp_success,
                   obsvars, histvars>>

\* variant: the flag follows the last attempt
NtpSetTime_Resets(ok) ==
    /\ ntp_pc = "settime"
    /\ initial_ntp_success' = ok
    /\ ntp_pc' = "sleep"
    /\ UNCHANGED <<config_done, cfgvars, loopvars, pc, obsvars, histvars>>

\* ntptime.settime() returns (ok) or raises OSError; lines 216-224
NtpSetTime(ok) ==
    /\ ntp_pc = "settime"
    /\ initial_ntp_success' = (initial_ntp_success \/ ok)
    /\ ntp_pc' = "sleep"
    /\ UNCHANGED <<config_done, cfgvars, loopvars, pc, obsvars, histvars>>

----------------------------------------------------------------------------
(* Pure parts of the decision cycle *)

\* (current_temp * 1.8) + 32, exact on the multiples of 5
ToF(c) == (c * 9) \div 5 + 32

\* variant: the loop stops at the first entry that qualifies
ScanAdjustment_First(days, temps, days_in, i, a) ==
    LET q == {k \in i..Len(days) : days[k] <= days_in}
    IN IF q = {} THEN a ELSE temps[CHOOSE k \in q : \A j \in q : k <= j]

\* the loop of determine_temp_adjustment from index i on, adjustment so far a
RECURSIVE ScanAdjustment(_, _, _, _, _)
ScanAdjustment(days, temps, days_in, i, a) ==
    IF i > Len(days) THEN a
    ELSE ScanAdjustment(days, temps, days_in, i + 1,
                        IF days[i] <= days_in THEN temps[i] ELSE a)

\* schedule_adjust_temp[i] raises IndexError for a qualifying entry
ScanRaises(days, temps, days_in) ==
    \E i \in 1..Len(days) : days[i] <= days_in /\ i > Len(temps)

\* determine_temp_adjustment: the values of schedule_adjustment and of the
\* two limits of publish_data after the call, and the exception it raised
determine_temp_adjustment(days_in) ==
    IF ScanRaises(schedule_adjust_days, schedule_adjust_temp, days_in)
    THEN [raised |-> "IndexError", adj |-> schedule_adjustment,
          low |-> lowTempLimit, high |-> highTempLimit]
    ELSE LET a == ScanAdjustment(schedule_adjust_days, schedule_adjust_temp,
                                 days_in, 1, 0)
         IN IF IsNone(base_low_temp)
            THEN [raised |-> "TypeError", adj |-> a,
                  low |-> lowTempLimit, high |-> highTempLimit]
            ELSE IF IsNone(base_high_temp)
            THEN [raised |-> "TypeError", adj |-> a,
                  low |-> Some(Val(base_low_temp) + a),
                  high |-> highTempLimit]
            ELSE [raised |-> "none", adj |-> a,
                  low |-> Some(Val(base_low_temp) + a),
                  high |-> Some(Val(base_high_temp) + a)]

\* variant: the guard is off by one, days_in = -1 is not skipped
SkipAdjustment_OffByOne(days_in) == days_in < -1

\* "if days_in < 0": report and skip the adjustment
SkipAdjustment(days_in) == days_in < 0

\* variant: the comparison with the low limit is reversed
HeatDemand_Above(bl, s2, lowL) == Truthy(bl) /\ s2 > 2 * Val(lowL)

\* line 171: base_low_temp and (current + previous) / 2 < lowTempLimit
HeatDemand(bl, s2, lowL) == Truthy(bl) /\ s2 < 2 * Val(lowL)

\* line 178: base_high_temp and (current + previous) / 2 > highTempLimit
OverHigh(bh, s2, highL) == Truthy(bh) /\ s2 > 2 * Val(highL)

\* variant: the test of cooling_state is missing
CoolDemand_IgnoresWaiting(bh, s2, highL, cs) == OverHigh(bh, s2, highL)

\* line 178 and 179: ... and cooling_state != 'waiting'
CoolDemand(bh, s2, highL, cs) == OverHigh(bh, s2, highL) /\ cs # "waiting"

\* variant: the cooldown ends one cycle early
CooldownFinished_Early(cnt, n) == cnt >= n - 2

\* variant: the cooldown ends one cycle late
CooldownFinished_Late(cnt, n) == cnt >= n

\* line 192: cooling_off_count >= minimum_off_mins - 1
CooldownFinished(cnt, n) == cnt >= n - 1

\* variant: line 186 is missing, cooling_state stays 'on' with the relay off
CoolingOff_StaysOn(cs, cnt, n) ==
    IF cs = "waiting"
    THEN [cs |-> IF CooldownFinished(cnt + 1, n) THEN "off" ELSE "waiting",
          cnt |-> cnt + 1]
    ELSE [cs |-> cs, cnt |-> cnt]

\* lines 185-194: cooling_state and cooling_off_count after the else branch
CoolingOff(cs, cnt, n) ==
    IF cs = "on" THEN [cs |-> "waiting", cnt |-> 0]
    ELSE IF cs = "waiting"
    THEN [cs |-> IF CooldownFinished(cnt + 1, n) THEN "off" ELSE "waiting",
          cnt |-> cnt + 1]
    ELSE [cs |-> cs, cnt |-> cnt]

\* lines 171-194 with the limits lowL and highL: the relays and the cooling
\* state after them, whether a comparison with None raised TypeError, and
\* whether the decision value was over the high limit
Decide(ct, pv, lowL, highL) ==
    LET s2 == ct + pv
        same == [raised |-> TRUE, heat |-> heat_relay_pin,
                 cool |-> cool_relay_pin, cs |-> cooling_state,
                 cnt |-> cooling_off_count, over |-> FALSE]
    IN IF Truthy(base_low_temp) /\ IsNone(lowL) THEN same
       ELSE LET h == IF HeatDemand(base_low_temp, s2, lowL) THEN 1 ELSE 0
            IN IF Truthy(base_high_temp) /\ IsNone(highL)
               THEN [same EXCEPT !.heat = h]
               ELSE IF CoolDemand(base_high_temp, s2, highL, cooling_state)
               THEN [raised |-> FALSE, heat |-> h, cool |-> 1, cs |-> "on",
                     cnt |-> cooling_off_count, over |-> TRUE]
               ELSE LET o == CoolingOff(cooling_state, cooling_off_count,
                                        minimum_off_mins)
                    IN [raised |-> FALSE, heat |-> h, cool |-> 0,
                        cs |-> o.cs, cnt |-> o.cnt,
                        over |-> OverHigh(base_high_temp, s2, highL)]

----------------------------------------------------------------------------
(* The control loop: main.  pc is the await the task is suspended in:      *)
(* "start" (lines 134-136), "cfg_sleep" (140), "ntp_sleep" (144), "errpub" *)
(* (165), "statuspub" (199), "failpub" (203), "sleep" (205); "dead" when   *)
(* main() has ended with an exception.                                     *)

Init ==
    /\ config_done = FALSE
    /\ schedule_start_time = None
    /\ base_low_temp = Some(0)
    /\ base_high_temp = Some(0)
    /\ minimum_off_mins = 3
    /\ tempUnit = "F"
    /\ schedule_adjust_days = <<>>
    /\ schedule_adjust_temp = <<>>
    /\ previous_temp = 0
    /\ currentTemp = 0
    /\ lowTempLimit = None
    /\ highTempLimit = None
    /\ schedule_adjustment = 0
    /\ heat_relay_pin = 0
    /\ cool_relay_pin = 0
    /\ cooling_state = "off"
    /\ cooling_off_count = 0
    /\ pc = "start"
    /\ ntp_pc = "sleep"
    /\ initial_ntp_success = FALSE
    /\ errEvents = 0
    /\ failCause = "none"
    /\ offCycles = 0
    /\ cfgStable = TRUE
    /\ allCompleted = TRUE
    /\ onAfter = 0
    /\ daysNegative = FALSE
    /\ coolDemand = FALSE
    /\ earlyRead = <<>>
    /\ mixedRead = FALSE
    /\ statusEvents = 0
    /\ lastStatus = <<>>
    /\ seededAgain = FALSE
    /\ sampled = FALSE

\* lines 134-136 are outside the try of line 146: client.connect() or the
\* client.publish of online() (line 121) raises and main() ends; the
\* callback and the clock thread go on
StartupRaises ==
    /\ pc = "start"
    /\ pc' = "dead"
    /\ UNCHANGED <<config_done, cfgvars, loopvars, ntp_pc,
                   initial_ntp_success, obsvars, histvars>>

\* the awaits from which the task goes on to the gates of lines 138-144
\* (from "start": line 136 has returned)
AtGate == pc \in {"start", "cfg_sleep", "ntp_sleep", "sleep"}

\* variant: the loop of lines 142-144 is missing
Gate_NoNtp ==
    IF pc # "ntp_sleep" /\ ~config_done THEN "cfg_sleep" ELSE "open"

\* lines 138 and 142: the gate at which the task sleeps again, "open" if
\* none; line 142 alone is evaluated after the sleep of line 144
Gate ==
    IF pc # "ntp_sleep" /\ ~config_done THEN "cfg_sleep"
    ELSE IF ~initial_ntp_success THEN "ntp_sleep"
    ELSE "open"

\* lines 138-144: a gate is closed, sleep 5 seconds
GateSleep ==
    /\ AtGate
    /\ Gate # "open"
    /\ pc' = Gate
    /\ UNCHANGED <<config_done, cfgvars, loopvars, ntp_pc,
                   initial_ntp_success, obsvars, histvars>>

\* the history of a cycle that ends with the cooling relay at cool
EndOfCycle(cool, completed) ==
    LET turnedOff == cool_relay_pin = 1 /\ cool = 0
        run == IF cool = 1 THEN 0
               ELSE IF turnedOff THEN 1
               ELSE IF offCycles = 0 THEN 0
               ELSE Min(offCycles + 1, MaxOffCycles)
    IN /\ offCycles' = run
       /\ cfgStable' = (run = 0 \/ turnedOff \/ cfgStable)
       /\ allCompleted' = (run = 0 \/ turnedOff \/ (allCompleted /\ completed))
       /\ onAfter' = IF cool = 0 THEN 0
                     ELSE IF cool_relay_pin = 1 THEN onAfter
                     ELSE IF cfgStable THEN offCycles ELSE 0

\* variant: coolOn and heatOn are read from the other pin
StatusRecord_Swapped(ct, unit, low, high, heat, cool) ==
    [currentTemp |-> ct, lowTempLimit |-> low, highTempLimit |-> high,
     tempUnit |-> unit, heatOn |-> cool, coolOn |-> heat]

\* lines 197-199: coolOn and heatOn are read from the pins, then publish_data
\* is serialised for the status topic
StatusRecord(ct, unit, low, high, heat, cool) ==
    [currentTemp |-> ct, lowTempLimit |-> low, highTempLimit |-> high,
     tempUnit |-> unit, heatOn |-> heat, coolOn |-> cool]

\* variant: the except branch switches the heat relay off
Fail_HeatOff(cause, pv, ct, adj, low, high, heat, events) ==
    /\ pc' = "failpub"
    /\ failCause' = cause
    /\ errEvents' = events + 1
    /\ previous_temp' = pv
    /\ currentTemp' = ct
    /\ schedule_adjustment' = adj
    /\ lowTempLimit' = low
    /\ highTempLimit' = high
    /\ heat_relay_pin' = 0
    /\ UNCHANGED <<cool_relay_pin, cooling_state, cooling_off_count,
                   coolDemand>>
    /\ statusEvents' = 0
    /\ lastStatus' = <<>>
    /\ EndOfCycle(cool_relay_pin, FALSE)

\* the except branch, lines 200-203: one error event, then the publish
Fail(cause, pv, ct, adj, low, high, heat, events) ==
    /\ pc' = "failpub"
    /\ failCause' = cause
    /\ errEvents' = events + 1
    /\ previous_temp' = pv
    /\ currentTemp' = ct
    /\ schedule_adjustment' = adj
    /\ lowTempLimit' = low
    /\ highTempLimit' = high
    /\ heat_relay_pin' = heat
    /\ UNCHANGED <<cool_relay_pin, cooling_state, cooling_off_count,
                   coolDemand>>
    /\ statusEvents' = 0
    /\ lastStatus' = <<>>
    /\ EndOfCycle(cool_relay_pin, FALSE)

\* lines 168-199 with the limits low and high, up to the status publish
DecisionTail(ct, pv, adj, low, high, events) ==
    LET d == Decide(ct, pv, low, high)
    IN IF d.raised
       THEN Fail("TypeError", pv, ct, adj, low, high, d.heat, events)
       ELSE /\ pc' = "statuspub"
            /\ failCause' = "none"
            /\ errEvents' = events
            /\ previous_temp' = ct
            /\ currentTemp' = ct
            /\ schedule_adjustment' = adj
            /\ lowTempLimit' = low
            /\ highTempLimit' = high
            /\ heat_relay_pin' = d.heat
            /\ cool_relay_pin' = d.cool
            /\ cooling_state' = d.cs
            /\ cooling_off_count' = d.cnt
            /\ coolDemand' = d.over
            /\ statusEvents' = 1
            /\ lastStatus' = <<StatusRecord(ct, tempUnit, low, high, d.heat,
                                            d.cool)>>
            /\ EndOfCycle(d.cool, TRUE)

\* lines 146-167 and, when days_in >= 0, on to line 199 without suspension:
\* the sensor reads raw (ok) or raises, the clock reads day now
CycleBegin(raw, ok, now) ==
    /\ AtGate
    /\ Gate = "open"
    /\ UNCHANGED <<config_done, cfgvars, ntp_pc, initial_ntp_success>>
    /\ sampled' = (sampled \/ ok)
    /\ IF ~ok
       THEN /\ Fail("sample", previous_temp, currentTemp, schedule_adjustment,
                    lowTempLimit, highTempLimit, heat_relay_pin, 0)
            /\ daysNegative' = FALSE
            /\ mixedRead' = FALSE
            /\ earlyRead' = <<>>
            /\ seededAgain' = FALSE
       ELSE LET ct == IF tempUnit = "F" THEN ToF(raw) ELSE raw
                pv == IF previous_temp = 0 THEN ct ELSE previous_temp
                days == now - Val(schedule_start_time)
            IN /\ daysNegative' = (days < 0)
               /\ seededAgain' = (sampled /\ pv # previous_temp)
               /\ IF SkipAdjustment(days)
                  THEN /\ pc' = "errpub"
                       /\ errEvents' = 1
                       /\ failCause' = "none"
                       /\ previous_temp' = pv
                       /\ currentTemp' = ct
                       /\ earlyRead' = <<tempUnit, schedule_start_time>>
                       /\ mixedRead' = FALSE
                       /\ UNCHANGED <<lowTempLimit, highTempLimit,
                                      schedule_adjustment, heat_relay_pin,
                                      cool_relay_pin, cooling_state,
                                      cooling_off_count, coolDemand,
                                      statusEvents, lastStatus, offCycles,
                                      cfgStable, allCompleted, onAfter>>
                  ELSE LET a == determine_temp_adjustment(days)
                       IN /\ earlyRead' = <<>>
                          /\ mixedRead' =
                                ~WholeConfig(tempUnit, schedule_start_time,
                                             base_low_temp, base_high_temp)
                          /\ IF a.raised # "none"
                             THEN Fail(a.raised, pv, ct, a.adj, a.low, a.high,
                                       heat_relay_pin, 0)
                             ELSE DecisionTail(ct, pv, a.adj, a.low, a.high, 0)

\* line 165 returns: the cycle goes on from line 168 with the globals as
\* they are now; tempUnit and schedule_start_time were read before it
CycleResume ==
    /\ pc = "errpub"
    /\ mixedRead' = ~WholeConfig(earlyRead[1], earlyRead[2], base_low_temp,
                                 base_high_temp)
    /\ earlyRead' = <<>>
    /\ DecisionTail(currentTemp, previous_temp, schedule_adjustment,
                    lowTempLimit, highTempLimit, errEvents)
    /\ UNCHANGED <<config_done, cfgvars, ntp_pc, initial_ntp_success,
                   daysNegative, seededAgain, sampled>>

\* safe_publish of line 199 or 203 returns, whether the publish worked (ok)
\* or raised and was swallowed; then the finally branch sleeps 60 seconds
PublishDone(ok) ==
    /\ pc \in {"statuspub", "failpub"}
    /\ pc' = "sleep"
    /\ errEvents' = 0
    /\ failCause' = "none"
    /\ daysNegative' = FALSE
    /\ coolDemand' = FALSE
    /\ mixedRead' = FALSE
    /\ statusEvents' = 0
    /\ lastStatus' = <<>>
    /\ seededAgain' = FALSE
    /\ UNCHANGED <<config_done, cfgvars, loopvars, ntp_pc,
                   initial_ntp_success, earlyRead, histvars>>

Next ==
    \/ \E m \in Messages : handle_incoming_message(m)
    \/ NtpWake
    \/ \E ok \in BOOLEAN : NtpSetTime(ok)
    \/ StartupRaises
    \/ GateSleep
    \/ \E raw \in Samples, ok \in BOOLEAN, now \in 0..MaxDay :
          CycleBegin(raw, ok, now)
    \/ CycleResume
    \/ \E ok \in BOOLEAN : PublishDone(ok)

Spec == Init /\ [][Next]_vars

-----------------------------------------------------------------------------
(* determine_temp_adjustment on its own: the two lists as parse_schedule   *)
(* can leave them for a message whose entries are all complete, in any     *)
(* order, and the function called with any number of days.                 *)

\* longest schedule
MaxLen == 2

SchedDays == {0, 10, 30}

SchedTemps == {-5, 5}

DaysElapsed == {0, 5, 10, 20}

SchedInit ==
    /\ config_done = TRUE
    /\ schedule_start_time = Some(0)
    /\ base_low_temp \in {None, Some(20)}
    /\ base_high_temp = Some(25)
    /\ minimum_off_mins = 3
    /\ tempUnit = "C"
    /\ \E n \in 0..MaxLen :
          /\ schedule_adjust_days \in [1..n -> SchedDays]
          /\ schedule_adjust_temp \in [1..n -> SchedTemps]
    /\ previous_temp = 0
    /\ currentTemp = 0
    /\ lowTempLimit = None
    /\ highTempLimit = None
    /\ schedule_adjustment = 0
    /\ heat_relay_pin = 0
    /\ cool_relay_pin = 0
    /\ cooling_state = "off"
    /\ cooling_off_count = 0
    /\ pc = "sleep"
    /\ ntp_pc = "sleep"
    /\ initial_ntp_success = TRUE
    /\ errEvents = 0
    /\ failCause = "none"
    /\ offCycles = 0
    /\ cfgStable = TRUE
    /\ allCompleted = TRUE
    /\ onAfter = 0
    /\ daysNegative = FALSE
    /\ coolDemand = FALSE
    /\ earlyRead = <<>>
    /\ mixedRead = FALSE
    /\ statusEvents = 0
    /\ lastStatus = <<>>
    /\ seededAgain = FALSE
    /\ sampled = FALSE

\* "await determine_temp_adjustment(days_in)", lines 67-75 and nothing else
SchedApply(days_in) ==
    LET a == determine_temp_adjustment(days_in)
    IN /\ schedule_adjustment' = a.adj
       /\ lowTempLimit' = a.low
       /\ highTempLimit' = a.high
       /\ UNCHANGED <<config_done, cfgvars, previous_temp, currentTemp,
                      heat_relay_pin, cool_relay_pin, cooling_state,
                      cooling_off_count, pc, ntp_pc, initial_ntp_success,
                      obsvars, histvars>>

SchedNext == \E days_in \in DaysElapsed : SchedApply(days_in)

SchedSpec == SchedInit /\ [][SchedNext]_vars

-----------------------------------------------------------------------------
\* A smaller set of inputs for the liveness property: an accepted Config
\* whose first cycles raise (MsgCelsius, start day 1), one whose cycles all
\* raise (MsgNoLow), two rejected messages, and two samples.
LiveMessages == {MsgCelsius, MsgNoLow, MsgBadJson, MsgNoTempChange}

LiveSamples == {0, 30}

\* the steps of the task main()
MainLoop ==
    \/ StartupRaises
    \/ GateSleep
    \/ \E raw \in LiveSamples, ok \in BOOLEAN, now \in 0..MaxDay :
          CycleBegin(raw, ok, now)
    \/ CycleResume
    \/ \E ok \in BOOLEAN : PublishDone(ok)

LiveNext ==
    \/ \E m \in LiveMessages : handle_incoming_message(m)
    \/ NtpWake
    \/ \E ok \in BOOLEAN : NtpSetTime(ok)
    \/ MainLoop

\* loop.run_forever() resumes the task whenever its await is over, with
\* the result of the await or with the exception it raised; nothing is
\* assumed of the broker or of the clock thread
FairSpec == Init /\ [][LiveNext]_vars /\ WF_vars(MainLoop)

----------------------------------------------------------------------------
(* Properties.  A cycle ends in the step that reaches "statuspub" (it      *)
(* completed) or "failpub" (it raised).                                    *)

\* the cooling run since the relay last turned off had no config change
StableRun == offCycles > 0 /\ cfgStable

\* ... and no cycle that raised
CleanRun == StableRun /\ allCompleted

\* C1: with minimumOffMinutes = N >= 1 and the Config not changed since the
\* cooling relay turned off, a cycle turns the relay on again only after at
\* least N consecutive cycles that ended with the relay off.
C1_MinimumOffTime ==
    [][(cool_relay_pin = 0 /\ cool_relay_pin' = 1 /\ StableRun
            /\ minimum_off_mins >= 1)
        => offCycles >= minimum_off_mins]_vars

\* the relay is on again after exactly the 3 off cycles that N = 3 demands
C1_Witness ==
    cool_relay_pin = 1 /\ onAfter = 3 /\ minimum_off_mins = 3

\* C2 as stated: in a run of completed cycles with the Config unchanged,
\* the cooling state is Waiting up to the end of off cycle N - 1 and Off
\* from the end of off cycle N on, for every N >= 1.
C2_ExactlyN ==
    (CleanRun /\ minimum_off_mins >= 1)
        => (cooling_state = "waiting" <=> offCycles < minimum_off_mins)

\* C2 amended: the cooling state is back to Off at the end of off cycle
\* max(N, 2) and not before: exactly N off cycles for N >= 2, two for N = 1.
C2_ExactlyMaxN2 ==
    (CleanRun /\ minimum_off_mins >= 1)
        => (cooling_state = "waiting"
               <=> offCycles < Max(minimum_off_mins, 2))

\* N = 3: Off again at the end of the third off cycle
C2_Witness ==
    /\ CleanRun /\ minimum_off_mins = 3 /\ offCycles = 3
    /\ cooling_state = "off" /\ cooling_off_count = 2 /\ pc = "statuspub"

\* C3: at every suspension point of the control loop the cooling relay is
\* on iff coolingState is On; so it is off while coolingState is Waiting.
C3_RelayIffOn == (cool_relay_pin = 1) <=> (cooling_state = "on")

\* a Waiting cycle whose decision value was over the high limit ended with
\* the relay off
C3_Witness ==
    /\ pc = "statuspub" /\ cooling_state = "waiting"
    /\ cooling_off_count >= 1 /\ coolDemand /\ cool_relay_pin = 0

\* C4: a config message that is not accepted changes no field of the Config.
C4_FailedIngestionNoOp ==
    [][\A m \in Messages :
          (handle_incoming_message(m) /\ ~Accepts(m))
              => UNCHANGED cfgvars]_vars

\* C5: the unit, start time and base limits that one decision cycle read
\* are those of one successfully installed Config.
C5_ConfigObservedWhole == ~mixedRead

\* C6: with baseLowLimit absent and baseHighLimit present, a cycle that got
\* its sample completes and leaves the heat relay off.
C6_AbsentLowStillCompletes ==
    [][(pc # pc' /\ pc' \in {"statuspub", "failpub"}
            /\ IsNone(base_low_temp) /\ ~IsNone(base_high_temp))
        => (failCause' \in {"none", "sample"} /\ heat_relay_pin' = 0)]_vars

\* twice the decision value of the cycle that ends in this step
DecisionSum ==
    currentTemp' + (IF previous_temp = 0 THEN currentTemp' ELSE previous_temp)

\* C7: a completed cycle leaves the heat relay on iff baseLowLimit is
\* configured (0 included) and the decision value is below activeLowLimit.
C7_HeatingDecision ==
    [][(pc # pc' /\ pc' = "statuspub")
        => ((heat_relay_pin' = 1)
               <=> (/\ ~IsNone(base_low_temp)
                    /\ ~IsNone(lowTempLimit')
                    /\ DecisionSum < 2 * Val(lowTempLimit')))]_vars

\* C8: the steps of a cycle that computed days_in < 0 leave both active
\* limits as they were, and the cycle has emitted an error event.
C8_NegativeDaysFreezesLimits ==
    [][(pc # pc' /\ daysNegative')
        => (/\ lowTempLimit' = lowTempLimit
            /\ highTempLimit' = highTempLimit
            /\ errEvents' >= 1)]_vars

\* a cycle with days_in < 0 ended with the limits of the former Config
\* (68, 77) although the base limits are now 20 and 25
C8_Witness ==
    /\ pc = "statuspub" /\ daysNegative /\ errEvents = 1
    /\ lowTempLimit = Some(68) /\ highTempLimit = Some(77)
    /\ base_low_temp = Some(20) /\ base_high_temp = Some(25)

\* C9: a cycle that computed days_in < 0 does not end in the failure
\* handler.
C9_NegativeDaysContinues == daysNegative => pc # "failpub"

\* C10: a cycle that raised has produced exactly one error event, with both
\* readiness flags still set.
C10_OneErrorEvent ==
    pc = "failpub"
        => (errEvents = 1 /\ config_done /\ initial_ntp_success)

\* both readiness flags are set
Ready == config_done /\ initial_ntp_success

\* the task is inside a decision cycle
InCycle == pc \in {"errpub", "statuspub", "failpub"}

\* C11: once config_done and initial_ntp_success are set, the loop begins
\* a decision cycle again and again: from every such state a cycle is
\* begun, and every cycle begun is left for the sleep of line 205.
C11_NeverHalts ==
    /\ Ready ~> InCycle
    /\ (Ready /\ InCycle) ~> (pc = "sleep")

\* C12: while config_done or initial_ntp_success is still false the task has
\* never been past the gates: it is at the start, in one of the two gate
\* sleeps or has ended in lines 134-136, no sample has been taken, the limits have not been computed, both
\* relays are off and no status record has been published.
C12_ReadinessGate ==
    ~Ready =>
        /\ pc \in {"start", "cfg_sleep", "ntp_sleep", "dead"}
        /\ ~sampled /\ errEvents = 0 /\ currentTemp = 0
        /\ lowTempLimit = None /\ highTempLimit = None
        /\ heat_relay_pin = 0 /\ cool_relay_pin = 0
        /\ statusEvents = 0 /\ lastStatus = <<>>

\* the Config is there, a clock synchronisation has failed, and the task
\* idles in the sleep of line 144
C12_Witness ==
    /\ config_done /\ ~initial_ntp_success
    /\ pc = "ntp_sleep" /\ ntp_pc = "sleep"

\* C13: no step of the task, of the config callback or of the clock thread
\* resets config_done or initial_ntp_success once it is set.
C13_FlagsMonotone ==
    [][/\ config_done => config_done'
       /\ initial_ntp_success => initial_ntp_success']_vars

\* both flags are set, a config message (start day 2) has been rejected
\* since, and the clock thread is in a later ntptime.settime()
C13_Witness ==
    /\ Ready /\ schedule_start_time = Some(2)
    /\ ntp_pc = "settime"

\* the entries whose daysLater has been reached after d days
Qualifying(d) == {k \in 1..Len(schedule_adjust_days) : schedule_adjust_days[k] <= d}

\* the list is sorted ascending by daysLater
SortedSchedule ==
    \A i, j \in 1..Len(schedule_adjust_days) :
        i <= j => schedule_adjust_days[i] <= schedule_adjust_days[j]

\* C14: for every list of offsets and every number of days >= 0 the
\* adjustment after determine_temp_adjustment is the tempChange of the last
\* entry in list order whose daysLater is <= the days elapsed, 0 if there is
\* none; for a sorted list that entry has the greatest daysLater reached; for
\* [(10, 5), (0, -5)] after 20 days it is -5.  The limits are the base
\* limits plus the adjustment, and nothing else changes.
C14_ScheduleEngine ==
    [][\A d \in DaysElapsed : SchedApply(d) =>
          LET q == Qualifying(d)
              last == Max(CHOOSE k \in q : \A j \in q : j <= k, 1)
          IN /\ q = {} => schedule_adjustment' = 0
             /\ q # {} => schedule_adjustment' = schedule_adjust_temp[last]
             /\ (q # {} /\ SortedSchedule) =>
                   \A j \in q : schedule_adjust_days[j]
                                   <= schedule_adjust_days[last]
             /\ (d = 20 /\ schedule_adjust_days = <<10, 0>>
                        /\ schedule_adjust_temp = <<5, -5>>) =>
                   schedule_adjustment' = -5
             /\ ~IsNone(base_low_temp) =>
                   /\ lowTempLimit' =
                         Some(Val(base_low_temp) + schedule_adjustment')
                   /\ highTempLimit' =
                         Some(Val(base_high_temp) + schedule_adjustment')
             /\ UNCHANGED <<config_done, cfgvars, previous_temp, currentTemp,
                            heat_relay_pin, cool_relay_pin, cooling_state,
                            cooling_off_count>>]_vars

\* the unsorted list [(10, 5), (0, -5)]: the adjustment is -5 and the
\* limits are 15 and 20
C14_Witness ==
    /\ schedule_adjust_days = <<10, 0>> /\ schedule_adjust_temp = <<5, -5>>
    /\ schedule_adjustment = -5
    /\ lowTempLimit = Some(15) /\ highTempLimit = Some(20)

\* C15: after every successful ingestion of a message every field of the
\* Config is the one given in the message and the two schedule lists are
\* exactly the tempChanges of the message, in order, also when the message
\* has no tempChanges.
C15_WholeConfigReplaced ==
    [][\A m \in Messages : (Accepts(m) /\ handle_incoming_message(m)) =>
          /\ schedule_start_time' = Some(m.startDay)
          /\ base_low_temp' = m.lowTempLimit
          /\ base_high_temp' = m.highTempLimit
          /\ minimum_off_mins' = m.minimumOffMins
          /\ tempUnit' = (IF m.celsius THEN "C" ELSE "F")
          /\ schedule_adjust_days' =
                [i \in 1..Len(m.tempChanges) |-> Val(m.tempChanges[i].daysLater)]
          /\ schedule_adjust_temp' =
                [i \in 1..Len(m.tempChanges) |-> Val(m.tempChanges[i].tempChange)]
      ]_vars

\* C16: previous_temp is overwritten with the current sample before the
\* average is taken (lines 156-157) in no cycle that comes after a cycle in
\* which a sample was read: every later cycle averages the current sample
\* with the previous one, whatever the samples are.
C16_SeedsOnce == sampled => ~seededAgain

\* C17: a step that completes a decision cycle changes cooling_state and
\* cooling_off_count in one of six ways: off -> on and on -> on with the
\* decision value over the high limit, off -> off and on -> waiting without
\* (the counter reset to 0 in the latter), waiting -> waiting with the
\* counter incremented by 1, waiting -> off when the incremented counter is
\* >= minimum_off_mins - 1.  The counter changes in the last three only, and
\* no other step changes either.
C17_CoolingTransitions ==
    [][IF pc # "statuspub" /\ pc' = "statuspub"
       THEN LET cnt == cooling_off_count
                cnt2 == cooling_off_count'
                tr == <<cooling_state, cooling_state'>>
            IN \/ tr = <<"off", "on">> /\ coolDemand' /\ cnt2 = cnt
               \/ tr = <<"off", "off">> /\ ~coolDemand' /\ cnt2 = cnt
               \/ tr = <<"on", "on">> /\ coolDemand' /\ cnt2 = cnt
               \/ tr = <<"on", "waiting">> /\ ~coolDemand' /\ cnt2 = 0
               \/ /\ tr = <<"waiting", "waiting">>
                  /\ cnt2 = cnt + 1 /\ cnt2 < minimum_off_mins - 1
               \/ /\ tr = <<"waiting", "off">>
                  /\ cnt2 = cnt + 1 /\ cnt2 >= minimum_off_mins - 1
       ELSE UNCHANGED <<cooling_state, cooling_off_count>>]_vars

\* a cooldown of minimum_off_mins = 2 has run from on over waiting to off
C17_Witness ==
    /\ pc = "statuspub" /\ cooling_state = "off"
    /\ offCycles = 2 /\ cooling_off_count = 1 /\ minimum_off_mins = 2

\* C18: a cycle that reaches line 199 has published one status record, made
\* after both relays were set, whose heatOn and coolOn are the values of the
\* two pins and whose limits are the limits of publish_data; a cycle that
\* ends in the except branch has published none, and neither has the task
\* outside a cycle.
C18_StatusEmission ==
    /\ pc = "statuspub" =>
          /\ statusEvents = 1
          /\ Len(lastStatus) = 1
          /\ lastStatus[1].heatOn = heat_relay_pin
          /\ lastStatus[1].coolOn = cool_relay_pin
          /\ lastStatus[1].lowTempLimit = lowTempLimit
          /\ lastStatus[1].highTempLimit = highTempLimit
          /\ lastStatus[1].currentTemp = currentTemp
    /\ pc # "statuspub" => (statusEvents = 0 /\ lastStatus = <<>>)

\* a completed cycle that left the cooling relay on and the heat relay off
\* and published it
C18_Witness ==
    /\ pc = "statuspub" /\ statusEvents = 1
    /\ cool_relay_pin = 1 /\ heat_relay_pin = 0
    /\ lastStatus[1].coolOn = 1 /\ sampled

\* every message received gives its limits with lowTempLimit <= highTempLimit
\* where it gives both
LimitsOrdered ==
    \A m \in Messages :
        (~IsNone(m.lowTempLimit) /\ ~IsNone(m.highTempLimit))
            => Val(m.lowTempLimit) <= Val(m.highTempLimit)

\* C19: with the low limit of every Config at most its high limit, the heat
\* relay and the cooling relay are never both on, whatever cycles completed
\* or failed and whatever config messages were accepted or rejected.
C19_NotBothOn ==
    LimitsOrdered => ~(heat_relay_pin = 1 /\ cool_relay_pin = 1)

\* the heat relay is on at the end of a cycle, the cooling relay having been
\* on in an earlier cycle, under a Config that gives both limits
C19_Witness ==
    /\ pc = "statuspub" /\ heat_relay_pin = 1 /\ offCycles >= 1
    /\ ~IsNone(base_low_temp) /\ ~IsNone(base_high_temp)

\* C20: a cycle in which convert_temp or read_temp raises leaves both
\* relays, cooling_state, cooling_off_count, previous_temp and the limits of
\* publish_data as they were before the cycle.
C20_FailedSampleFrame ==
    [][(pc # "failpub" /\ pc' = "failpub" /\ failCause' = "sample") =>
          UNCHANGED <<heat_relay_pin, cool_relay_pin, cooling_state,
                      cooling_off_count, previous_temp, currentTemp,
                      lowTempLimit, highTempLimit, schedule_adjustment>>
      ]_vars

\* the sample failed in a cycle that began with the heat relay on and the
\* cooldown running, one cycle or more after the cooling relay went off
C20_Witness ==
    /\ pc = "failpub" /\ failCause = "sample"
    /\ heat_relay_pin = 1 /\ cooling_state = "waiting" /\ offCycles >= 2

====
